---- MODULE Spec2Model ----
(***************************************************************************)
(* Elkbot: the backlog-ingestion pipeline of src/unnamed/part_000          *)
(* (_IngestHandler -> _PaginateMessages -> _IngestMessage ->               *)
(* _IngestAttachment -> _InsertIndex) as a state machine.  Every external  *)
(* call (history fetch, index write, chat send) is one step; the local     *)
(* control flow between two external calls belongs to the step of the call *)
(* that precedes it.                                                       *)
(*                                                                         *)
(* Texts are sequences of string tokens, so that fmt.Errorf's "%w"/"%s"    *)
(* substitution is concatenation and "the reply contains the detail" is a  *)
(* question about sub-sequences.                                           *)
(***************************************************************************)
EXTENDS Integers, Sequences, FiniteSets, TLC

\* ---------------------------------------------------------------- bounds
MaxRuns == 2          \* invocations of the command in one behaviour (SpecRerun)
MaxAtt == 2           \* attachments of one message: 0..MaxAtt
MaxSmall == 2         \* the small channel sizes are 0..MaxSmall

\* ------------------------------------------------------ program constants
PageSize == 100       \* limit argument of session.ChannelMessages

AllowedID == "106162668032802816"
OtherID == "222222222222222222"
BotID == "elkbot"
Authors == {AllowedID, OtherID}

FetchErrPrefix == "error fetching messages from Discord: "
HandlerErrPrefix == "error when processing messages: "
MessageErrPrefix == "error ingesting message: "
AttachmentErrPrefix == "error ingesting attachment: "
StatusErrPrefix == "got status code "
SuccessText == <<"Channel messages successfully ingested.">>
\* The code fence (three backquotes, which a TLA+ string cannot hold) and its line break.
CodeOpen == "<fence>\n"
CodeClose == "\n<fence>"

Runs == 1..MaxRuns
Channels == {1, 2}
NoCursor == <<>>      \* the "" passed as beforeID
NoError == <<>>       \* nil

\* What the collaborators may answer.
FetchFailure == <<"HTTP 500 Internal Server Error">>
TransportFailure == <<"dial tcp 127.0.0.1:9200: connect: connection refused">>
StatusFailure == "503 Service Unavailable"
WriteOutcomes == {"ok", "transport", "status"}

VARIABLES
    base,     \* base[c]: messages of channel c before the first command
    pat,      \* pat[c][n % 2]: attachments of base message n of channel c
    posted,   \* posted[c]: messages appended to c since (commands, replies)
    index0,   \* the index service's documents before the first command
    index,    \* the index service: <<indexName, documentID>> -> document
    env,      \* what the users do in this behaviour: limit, the commands they
              \* issue; overlap, whether they issue one while an earlier one is
              \* still handled; repeat, whether every command repeats the first
    run,      \* run[r]: the locals of invocation r of _IngestHandler
    calls     \* calls[r]: the external calls invocation r has issued, in order

vars == <<base, pat, posted, index0, index, env, run, calls>>

\* ------------------------------------------------------------- the chat
Min(a, b) == IF a < b THEN a ELSE b

ChanLen(c) == base[c] + Len(posted[c])

AttCount(c, n) == IF n <= base[c] THEN pat[c][n % 2] ELSE 0

Attachment(c, n, k) ==
    [ID |-> <<c, n, k>>, Filename |-> <<"file", k>>, Height |-> k, Width |-> k + 1,
     Size |-> 10 * k, URL |-> <<"url", c, n, k>>, ProxyURL |-> <<"proxy", c, n, k>>]

\* Message n of channel c (n = 1 is the oldest); IDs grow with time.
Msg(c, n) ==
    [ID |-> <<c, n>>, ChannelID |-> c, Timestamp |-> n,
     Author |-> [ID |-> IF n <= base[c] THEN (IF n % 2 = 0 THEN AllowedID ELSE OtherID)
                        ELSE posted[c][n - base[c]].author],
     Content |-> IF n <= base[c] THEN <<"text", n>> ELSE posted[c][n - base[c]].content,
     Attachments |-> [k \in 1..AttCount(c, n) |-> Attachment(c, n, k)]]

MsgOf(id) == Msg(id[1], id[2])

\* session.ChannelMessages(channelID, limit, beforeID, "", ""): the IDs of the
\* up-to-lim newest messages of the channel strictly older than beforeID, newest
\* first; every message when beforeID is "".
ChannelMessages(c, lim, beforeID) ==
    LET top == IF beforeID = NoCursor THEN ChanLen(c) ELSE beforeID[2] - 1
        cnt == Min(lim, top)
    IN  [j \in 1..cnt |-> <<c, top - j + 1>>]

\* ----------------------------------------------------------- fmt.Errorf
Errorf(prefix, err) == <<prefix>> \o err

\* ------------------------------------------------------------ the index
\* The failure itself: the transport's error text, or the response's status.
Detail(outcome) ==
    CASE outcome = "ok" -> NoError
      [] outcome = "transport" -> TransportFailure
      [] outcome = "status" -> <<StatusFailure>>

\* _InsertIndex's result for what the index service answered.
InsertIndexErr(outcome) ==
    CASE outcome = "ok" -> NoError
      [] outcome = "transport" -> Detail(outcome)
      [] outcome = "status" -> Errorf(StatusErrPrefix, Detail(outcome))

\* A write that merges into the document already there: its other fields stay.
InsertIndexMerging(idx, data, indexName, documentID) ==
    LET key == <<indexName, documentID>>
        old == IF key \in DOMAIN idx THEN idx[key] ELSE data
    IN  [x \in DOMAIN idx \cup {key} |->
            IF x = key
            THEN [f \in DOMAIN old \cup DOMAIN data |->
                    IF f \in DOMAIN data THEN data[f] ELSE old[f]]
            ELSE idx[x]]

\* esapi.IndexRequest{Index, DocumentID, Body}: create or fully replace.
InsertIndex(idx, data, indexName, documentID) ==
    [key \in DOMAIN idx \cup {<<indexName, documentID>>} |->
        IF key = <<indexName, documentID>> THEN data ELSE idx[key]]

MessageDoc(message) ==
    [content |-> message.Content, channel_id |-> message.ChannelID,
     author_id |-> message.Author.ID, timestamp |-> message.Timestamp]

AttachmentDoc(attachment, message) ==
    [filename |-> attachment.Filename, height |-> attachment.Height,
     width |-> attachment.Width, size |-> attachment.Size, url |-> attachment.URL,
     proxy_url |-> attachment.ProxyURL, message_id |-> message.ID,
     timestamp |-> message.Timestamp]

\* ------------------------------------------------------------ the steps
\* len0 is not a local of the handler: it records how many messages the target
\* channel held when the handler started.
IdleRun ==
    [pc |-> "idle", author |-> "", invChan |-> 0, target |-> 0, before |-> NoCursor,
     messages |-> <<>>, i |-> 0, k |-> 0, err |-> NoError, len0 |-> 0]

\* A guard that lets every author through.
AuthorizedAnyone(author) == TRUE

\* _IngestHandler's guard on the author.
Authorized(author) == author = AllowedID

\* A walk that ends at the first page that is not full.
LastPageWhenShort(page) == Len(page) < PageSize

\* A loop that hands every page to the callback, the empty one too.
LastPageNever(page) == FALSE

\* _PaginateMessages' loop condition, negated: the page that ends the walk.
LastPage(page) == Len(page) = 0

\* A cursor taken from the first (newest) message of the page.
NextCursorNewest(page) == page[1]

\* A cursor one message older than the last message of the page.
NextCursorSkipping(page) == <<page[Len(page)][1], page[Len(page)][2] - 1>>

\* A next fetch that passes "" again.
NextCursorNone(page) == NoCursor

\* The beforeID of the next fetch: the ID of the last message of the page.
NextCursor(page) == page[Len(page)]

\* An error that names the step and drops what it wraps (no %w).
IngestMessageErrNoCause(err) == <<"error ingesting message">>

\* _IngestMessage's error for a failed "messages" write.
IngestMessageErr(err) == Errorf(MessageErrPrefix, err)

\* An attachment error that drops what it wraps (no %w).
IngestAttachmentErrNoCause(err) == <<"error ingesting attachment">>

\* _IngestAttachment's error for a failed "attachments" write.
IngestAttachmentErr(err) == Errorf(AttachmentErrPrefix, err)

\* A failed fetch wrapped like a failed callback.
FetchErrAsHandlerErr(err) == Errorf(HandlerErrPrefix, err)

\* _PaginateMessages' error for a failed fetch, and for a failed callback.
FetchErr(err) == Errorf(FetchErrPrefix, err)
HandlerErr(err) == Errorf(HandlerErrPrefix, err)

\* An attachment's document keyed by its message.
AttachmentDocIDOfParent(attachment, message) == message.ID

\* The document IDs _IngestMessage and _IngestAttachment pass to _InsertIndex.
MessageDocID(message) == message.ID
AttachmentDocID(attachment, message) == attachment.ID

\* A reply sent to the channel named by the argument.
ReplyChannelOfArgs(s) == s.target

\* The invoking message kept in a package-level variable that every invocation
\* overwrites: the reply goes to the channel of the latest command.
ReplyChannelOfLatest(s) ==
    run[CHOOSE q \in Runs : run[q].pc # "idle" /\ \A p \in Runs : run[p].pc # "idle" => p <= q].invChan

\* The channel _IngestHandler replies to.
ReplyChannel(s) == s.invChan

\* The two branches of the reply exchanged (err == nil for err != nil).
ReplyTextInverted(err) ==
    IF err = NoError THEN <<CodeOpen>> \o err \o <<CodeClose>> ELSE SuccessText

\* What _IngestHandler sends for the error _PaginateMessages returned.
ReplyText(err) ==
    IF err # NoError THEN <<CodeOpen>> \o err \o <<CodeClose>> ELSE SuccessText

\* A callback that returns nil from inside its loop, after the first message.
NextMessageReturnsEarly(s) ==
    [s EXCEPT !.pc = "fetch", !.before = NextCursor(s.messages), !.i = 0, !.k = 0]

\* _IngestMessage returned nil for message s.i: the callback's loop goes on to the
\* next message of the page, or returns nil and _PaginateMessages fetches again.
NextMessage(s) ==
    IF s.i < Len(s.messages)
    THEN [s EXCEPT !.pc = "message", !.i = s.i + 1, !.k = 0]
    ELSE [s EXCEPT !.pc = "fetch", !.before = NextCursor(s.messages), !.i = 0, !.k = 0]

\* A failed write that is noted while the loops go on.
AbortAndGoOn(s, err) == [NextMessage(s) EXCEPT !.err = HandlerErr(err)]

\* A failed write: every loop is left and _PaginateMessages returns the wrapped error.
Abort(s, err) == [s EXCEPT !.pc = "reply", !.err = HandlerErr(err)]

Log(r, call) == calls' = [calls EXCEPT ![r] = Append(@, call)]

\* The command arrives: the author's message lands in the invoking channel and the
\* handler starts, returning at once for anyone but the allowed author.
Invoke(r) ==
    /\ r <= env.limit
    /\ run[r].pc = "idle"
    /\ \A q \in Runs : q < r => run[q].pc # "idle"
    /\ env.overlap \/ \A q \in Runs : run[q].pc \in {"idle", "denied", "done"}
    /\ \E a \in Authors, ic \in Channels, t \in Channels :
        /\ (env.repeat /\ r > 1) =>
                (a = run[1].author /\ ic = run[1].invChan /\ t = run[1].target)
        /\ posted' = [posted EXCEPT
                        ![ic] = Append(@, [author |-> a, content |-> <<"elk!ingest ", t>>])]
        /\ run' = [run EXCEPT ![r] =
                     [IdleRun EXCEPT !.pc = IF Authorized(a) THEN "fetch" ELSE "denied",
                                     !.author = a, !.invChan = ic, !.target = t,
                                     !.len0 = ChanLen(t) + (IF ic = t THEN 1 ELSE 0)]]
    /\ UNCHANGED <<base, pat, index0, index, env, calls>>

\* session.ChannelMessages(channelID, 100, before, "", "") and what follows it up to
\* the next external call.
Fetch(r) ==
    LET s == run[r]
        page == ChannelMessages(s.target, PageSize, s.before)
    IN  /\ s.pc = "fetch"
        /\ \E ok \in BOOLEAN :
            /\ Log(r, [op |-> "fetch", channel |-> s.target, before |-> s.before,
                       ok |-> ok, n |-> IF ok THEN Len(page) ELSE 0])
            /\ run' = [run EXCEPT ![r] =
                         IF ~ok
                         THEN [s EXCEPT !.pc = "reply", !.err = FetchErr(FetchFailure),
                                        !.messages = <<>>]
                         ELSE IF LastPage(page)
                         THEN [s EXCEPT !.pc = "reply", !.err = NoError, !.messages = page]
                         ELSE [s EXCEPT !.pc = "message", !.messages = page,
                                        !.i = 1, !.k = 0]]
        /\ UNCHANGED <<base, pat, posted, index0, index, env>>

\* _IngestMessage: the write of the message's document.
WriteMessage(r) ==
    LET s == run[r]
        message == MsgOf(s.messages[s.i])
    IN  /\ s.pc = "message"
        /\ \E outcome \in WriteOutcomes :
            LET err == InsertIndexErr(outcome) IN
            /\ Log(r, [op |-> "write", index |-> "messages", id |-> MessageDocID(message),
                       ok |-> outcome = "ok", detail |-> Detail(outcome)])
            /\ index' = IF outcome = "ok"
                        THEN InsertIndex(index, MessageDoc(message), "messages",
                                         MessageDocID(message))
                        ELSE index
            /\ run' = [run EXCEPT ![r] =
                         IF err # NoError THEN Abort(s, IngestMessageErr(err))
                         ELSE IF Len(message.Attachments) > 0
                         THEN [s EXCEPT !.pc = "attachment", !.k = 1]
                         ELSE NextMessage(s)]
        /\ UNCHANGED <<base, pat, posted, index0, env>>

\* _IngestAttachment: the write of one attachment's document.
WriteAttachment(r) ==
    LET s == run[r]
        message == MsgOf(s.messages[s.i])
        attachment == message.Attachments[s.k]
    IN  /\ s.pc = "attachment"
        /\ \E outcome \in WriteOutcomes :
            LET err == InsertIndexErr(outcome) IN
            /\ Log(r, [op |-> "write", index |-> "attachments",
                       id |-> AttachmentDocID(attachment, message),
                       ok |-> outcome = "ok", detail |-> Detail(outcome)])
            /\ index' = IF outcome = "ok"
                        THEN InsertIndex(index, AttachmentDoc(attachment, message),
                                         "attachments", AttachmentDocID(attachment, message))
                        ELSE index
            /\ run' = [run EXCEPT ![r] =
                         IF err # NoError THEN Abort(s, IngestAttachmentErr(err))
                         ELSE IF s.k < Len(message.Attachments)
                         THEN [s EXCEPT !.k = s.k + 1]
                         ELSE NextMessage(s)]
        /\ UNCHANGED <<base, pat, posted, index0, env>>

\* session.ChannelMessageSend(message.ChannelID, ...); its result is ignored.
Reply(r) ==
    LET s == run[r]
        text == ReplyText(s.err)
    IN  /\ s.pc = "reply"
        /\ \E delivered \in BOOLEAN :
            /\ Log(r, [op |-> "send", channel |-> ReplyChannel(s), text |-> text,
                       ok |-> delivered])
            /\ posted' = IF delivered
                         THEN [posted EXCEPT ![ReplyChannel(s)] =
                                 Append(@, [author |-> BotID, content |-> text])]
                         ELSE posted
        /\ run' = [run EXCEPT ![r].pc = "done"]
        /\ UNCHANGED <<base, pat, index0, index, env>>

Next ==
    \E r \in Runs :
        \/ Invoke(r)
        \/ Fetch(r)
        \/ WriteMessage(r)
        \/ WriteAttachment(r)
        \/ Reply(r)

\* ------------------------------------------------------- initial states
Patterns == [0..1 -> 0..MaxAtt]

\* A document an earlier, different ingestion left behind.
StaleDoc == [content |-> <<"stale">>, channel_id |-> 1, author_id |-> OtherID,
             timestamp |-> 0, edited |-> TRUE]
EmptyIndex == <<>>
StaleIndex == InsertIndex(EmptyIndex, StaleDoc, "messages", <<1, 1>>)

\* Channel sizes: none, a few, exactly one page, two pages and a half.
SmallSizes == 0..MaxSmall
PageSizes == {PageSize, 2 * PageSize + PageSize \div 2}

InitWith(sizes, patterns, indexes, users) ==
    /\ \E size \in sizes, p \in patterns :
        /\ base = [c \in Channels |-> IF c = 1 THEN size ELSE 1]
        /\ pat = [c \in Channels |-> IF c = 1 THEN p ELSE [j \in 0..1 |-> 1]]
    /\ posted = [c \in Channels |-> <<>>]
    /\ index0 \in indexes
    /\ index = index0
    /\ env = users
    /\ run = [r \in Runs |-> IdleRun]
    /\ calls = [r \in Runs |-> <<>>]

OneCommand == [limit |-> 1, overlap |-> FALSE, repeat |-> FALSE]
SameCommandAgain == [limit |-> MaxRuns, overlap |-> FALSE, repeat |-> TRUE]

\* One command, against channels of every size.
Init ==
    \/ InitWith(SmallSizes, Patterns, {EmptyIndex, StaleIndex}, OneCommand)
    \/ InitWith(PageSizes, Patterns, {EmptyIndex}, OneCommand)

Spec == Init /\ [][Next]_vars

\* The same command up to MaxRuns times, each issued when the one before it has
\* been handled, against the small channels and an index that is not empty.
RerunPatterns == {p \in Patterns : p[0] >= p[1]}
InitRerun == InitWith(SmallSizes, RerunPatterns, {StaleIndex}, SameCommandAgain)

SpecRerun == InitRerun /\ [][Next]_vars

\* The handler runs synchronously from one external call to the next: when every
\* external call returns, an invocation that has a step to take takes it.
HandlerStep(r) == Fetch(r) \/ WriteMessage(r) \/ WriteAttachment(r) \/ Reply(r)

InitLive ==
    \/ InitWith(SmallSizes, Patterns, {EmptyIndex}, OneCommand)
    \/ InitWith({PageSize}, RerunPatterns, {EmptyIndex}, OneCommand)

SpecLive == InitLive /\ [][Next]_vars /\ \A r \in Runs : WF_vars(HandlerStep(r))

\* Two commands, the second of which may arrive while the first is still being
\* handled: the library runs each handler on a goroutine of its own.
TwoAtOnce == [limit |-> 2, overlap |-> TRUE, repeat |-> FALSE]
InitOverlap == InitWith(SmallSizes \ {0}, RerunPatterns, {StaleIndex}, TwoAtOnce)

SpecOverlap == InitOverlap /\ [][Next]_vars

\* ------------------------------------- the single-page handler, src/elkbot.go
HistoryErrPrefix == "failed to retrieve message history: "
GoCodeOpen == "<fence>go\n"

\* The document of the single-page handler: no channel_id.
ElkbotMessageDoc(message) ==
    [content |-> message.Content, author_id |-> message.Author.ID,
     timestamp |-> message.Timestamp]

\* fmt.Sprintf("%#v", args) between the fences.
ElkbotArgsText(s) ==
    <<GoCodeOpen, "main._IngestArgs{ChannelID:", s.target, "}", CodeClose>>

\* What the handler sends: the fetch's failure, or its arguments at the end.
ElkbotReplyText(s) ==
    IF s.err # NoError
    THEN <<CodeOpen>> \o Errorf(HistoryErrPrefix, s.err) \o <<CodeClose>>
    ELSE ElkbotArgsText(s)

\* The loop over the fetched messages goes on after message s.i, or ends.
ElkbotNextMessage(s) ==
    IF s.i < Len(s.messages)
    THEN [s EXCEPT !.i = s.i + 1]
    ELSE [s EXCEPT !.pc = "elkbot_reply", !.i = 0]

\* The command arrives: the handler starts for any author.
ElkbotInvoke(r) ==
    /\ r <= env.limit
    /\ run[r].pc = "idle"
    /\ \A q \in Runs : q < r => run[q].pc # "idle"
    /\ env.overlap \/ \A q \in Runs : run[q].pc \in {"idle", "done", "panic"}
    /\ \E a \in Authors, ic \in Channels, t \in Channels :
        /\ posted' = [posted EXCEPT
                        ![ic] = Append(@, [author |-> a, content |-> <<"elk!ingest ", t>>])]
        /\ run' = [run EXCEPT ![r] =
                     [IdleRun EXCEPT !.pc = "elkbot_fetch",
                                     !.author = a, !.invChan = ic, !.target = t,
                                     !.len0 = ChanLen(t) + (IF ic = t THEN 1 ELSE 0)]]
    /\ UNCHANGED <<base, pat, index0, index, env, calls>>

\* session.ChannelMessages(args.ChannelID, 100, "", "", ""), once.
ElkbotFetch(r) ==
    LET s == run[r]
        page == ChannelMessages(s.target, PageSize, NoCursor)
    IN  /\ s.pc = "elkbot_fetch"
        /\ \E ok \in BOOLEAN :
            /\ Log(r, [op |-> "fetch", channel |-> s.target, before |-> NoCursor,
                       ok |-> ok, n |-> IF ok THEN Len(page) ELSE 0])
            /\ run' = [run EXCEPT ![r] =
                         IF ~ok
                         THEN [s EXCEPT !.pc = "elkbot_reply", !.err = FetchFailure]
                         ELSE IF Len(page) = 0
                         THEN [s EXCEPT !.pc = "elkbot_reply", !.messages = page]
                         ELSE [s EXCEPT !.pc = "elkbot_write", !.messages = page,
                                        !.i = 1]]
        /\ UNCHANGED <<base, pat, posted, index0, index, env>>

\* req.Do for message s.i.  A transport error is logged and the nil response is
\* then dereferenced: the handler panics.  An error status is logged and the
\* loop goes on.
ElkbotWrite(r) ==
    LET s == run[r]
        message == MsgOf(s.messages[s.i])
    IN  /\ s.pc = "elkbot_write"
        /\ \E outcome \in WriteOutcomes :
            /\ Log(r, [op |-> "write", index |-> "messages", id |-> message.ID,
                       ok |-> outcome = "ok", detail |-> Detail(outcome)])
            /\ index' = IF outcome = "ok"
                        THEN InsertIndex(index, ElkbotMessageDoc(message), "messages",
                                         message.ID)
                        ELSE index
            /\ run' = [run EXCEPT ![r] =
                         IF outcome = "transport"
                         THEN [s EXCEPT !.pc = "panic"]
                         ELSE ElkbotNextMessage(s)]
        /\ UNCHANGED <<base, pat, posted, index0, env>>

\* session.ChannelMessageSend(message.ChannelID, ...); its result is dropped.
ElkbotReply(r) ==
    LET s == run[r]
        text == ElkbotReplyText(s)
    IN  /\ s.pc = "elkbot_reply"
        /\ \E delivered \in BOOLEAN :
            /\ Log(r, [op |-> "send", channel |-> s.invChan, text |-> text,
                       ok |-> delivered])
            /\ posted' = IF delivered
                         THEN [posted EXCEPT ![s.invChan] =
                                 Append(@, [author |-> BotID, content |-> text])]
                         ELSE posted
        /\ run' = [run EXCEPT ![r].pc = "done"]
        /\ UNCHANGED <<base, pat, index0, index, env>>

ElkbotNext ==
    \E r \in Runs :
        \/ ElkbotInvoke(r)
        \/ ElkbotFetch(r)
        \/ ElkbotWrite(r)
        \/ ElkbotReply(r)

\* One command, against the small channels.
InitElkbot == InitWith(SmallSizes, Patterns, {EmptyIndex, StaleIndex}, OneCommand)

SpecElkbot == InitElkbot /\ [][ElkbotNext]_vars

\* ------------------------------------------------------------ properties
Last(L) == L[Len(L)]

\* Whether seq t occurs in seq s as a run of consecutive tokens.
Contains(s, t) ==
    \E j \in 0..(Len(s) - Len(t)) : \A m \in 1..Len(t) : s[j + m] = t[m]

Started(r) == run[r].pc # "idle"

\* No invocation has issued an external call yet.
NoCalls == \A q \in Runs : calls[q] = <<>>

BotPosts(c) == {j \in 1..Len(posted[c]) : posted[c][j].author = BotID}

\* C1: an invocation by anyone but the allowed author ends at once: it issues no
\* history fetch, no index write and no chat send, and (when no other invocation
\* has issued a call either) the index is as it was before the command and no
\* channel holds a message of the bot.
C1_UnauthorizedDoesNothing ==
    \A r \in Runs :
        (Started(r) /\ run[r].author # AllowedID) =>
            /\ run[r].pc = "denied"
            /\ calls[r] = <<>>
            /\ NoCalls => (index = index0 /\ \A c \in Channels : BotPosts(c) = {})

C1_Witness ==
    \E r \in Runs :
        /\ run[r].pc = "denied"
        /\ run[r].author = OtherID
        /\ index0 = StaleIndex
        /\ Len(posted[run[r].invChan]) = 1
\* The writes one _IngestMessage(message) is to issue, in order.
ExpectedWrites(message) ==
    <<[index |-> "messages", id |-> message.ID]>>
    \o [k \in 1..Len(message.Attachments) |->
            [index |-> "attachments", id |-> message.Attachments[k].ID]]

\* The place in its page of the message whose _IngestMessage call has just
\* returned nil in invocation r; 0 when none has.
JustIngested(r) ==
    LET s == run[r]
    IN  IF s.pc = "message" /\ s.i >= 2 THEN s.i - 1
        ELSE IF s.pc = "fetch" /\ s.before # NoCursor THEN Len(s.messages)
        ELSE 0

\* C2: when _IngestMessage(M) has returned nil, the calls it issued are exactly
\* one successful write to "messages" keyed by M's ID followed by one successful
\* write to "attachments" per attachment, the i-th keyed by Ai's ID; the call
\* before them is not M's: it is the fetch of the page (M is its first message) or
\* the last write of the message before M.
C2_WritesOfOneMessage ==
    \A r \in Runs :
        LET s == run[r]
            pos == JustIngested(r)
        IN  pos > 0 =>
            LET exp == ExpectedWrites(MsgOf(s.messages[pos]))
                n == Len(exp)
                L == calls[r]
            IN  /\ Len(L) > n
                /\ \A j \in 1..n :
                    LET e == L[Len(L) - n + j]
                    IN  /\ e.op = "write" /\ e.ok
                        /\ e.index = exp[j].index /\ e.id = exp[j].id
                /\ LET p == L[Len(L) - n]
                   IN  IF pos = 1 THEN p.op = "fetch"
                       ELSE LET q == Last(ExpectedWrites(MsgOf(s.messages[pos - 1])))
                            IN  p.op = "write" /\ p.index = q.index /\ p.id = q.id

C2_Witness ==
    \E r \in Runs :
        /\ JustIngested(r) > 1
        /\ Len(MsgOf(run[r].messages[JustIngested(r)]).Attachments) = 2
        /\ Len(MsgOf(run[r].messages[JustIngested(r) - 1]).Attachments) = 1
FailedMessageWrite(e) == e.op = "write" /\ e.index = "messages" /\ ~e.ok

\* C3: a failed write of a message's document is the last index call of the
\* invocation: the handler goes straight to its reply, so no attachment of that
\* message (nor anything else) is written; the error the handler holds, and the
\* one reply it then sends to the invoking channel, contain the text of the
\* original failure; nothing follows the reply.
C3_MessageWriteFailure ==
    \A r \in Runs :
        LET L == calls[r]
            n == Len(L)
        IN  /\ (n >= 1 /\ FailedMessageWrite(L[n])) =>
                /\ run[r].pc = "reply"
                /\ Contains(run[r].err, L[n].detail)
            /\ (n >= 2 /\ FailedMessageWrite(L[n - 1])) =>
                /\ run[r].pc = "done"
                /\ L[n].op = "send"
                /\ L[n].channel = run[r].invChan
                /\ Contains(L[n].text, L[n - 1].detail)
            /\ (n >= 2) => L[n - 1].op # "send"

C3_Witness ==
    \E r \in Runs :
        LET L == calls[r]
            n == Len(L)
        IN  /\ n >= 4
            /\ FailedMessageWrite(L[n - 1])
            /\ L[n - 1].detail = <<StatusFailure>>
            /\ Len(MsgOf(L[n - 1].id).Attachments) = 2
            /\ L[n].op = "send"
            /\ run[r].invChan # run[r].target
\* The sizes of the pages invocation r's fetches returned, in order.
FetchSizes(r) ==
    LET F == SelectSeq(calls[r], LAMBDA e : e.op = "fetch")
    IN  [j \in 1..Len(F) |-> F[j].n]

IsPrefix(a, b) == Len(a) <= Len(b) /\ \A j \in 1..Len(a) : a[j] = b[j]

\* Invocation r has just fetched, or is about to reply, and no call of it failed.
AtFetchOrEnd(r) ==
    /\ calls[r] # <<>>
    /\ run[r].err = NoError
    /\ Last(calls[r]).op = "fetch"
    /\ Last(calls[r]).ok

\* C4 as stated: for a channel of exactly 250 messages and no failure, three
\* fetches (100, 100, 50), and a fetch follows a page only if the page was full.
C4_AsStated ==
    \A r \in Runs :
        (AtFetchOrEnd(r) /\ run[r].len0 = 250) =>
            LET sizes == FetchSizes(r)
            IN  /\ IsPrefix(sizes, <<100, 100, 50>>)
                /\ \A j \in 1..(Len(sizes) - 1) : sizes[j] = 100

\* C4, amended: for a channel of exactly 250 messages and no failure, the fetches
\* return 100, 100, 50 and 0 messages, four in all when the walk has ended; and for
\* every channel a fetch follows a page exactly when the page was not empty: every
\* page but the last fetched is non-empty, a non-empty page sends the handler on
\* to its messages, an empty one to the reply.
C4_FetchesUntilEmpty ==
    \A r \in Runs :
        AtFetchOrEnd(r) =>
            LET sizes == FetchSizes(r)
            IN  /\ \A j \in 1..(Len(sizes) - 1) : sizes[j] > 0
                /\ run[r].pc = (IF Last(sizes) = 0 THEN "reply" ELSE "message")
                /\ run[r].len0 = 250 =>
                    /\ IsPrefix(sizes, <<100, 100, 50, 0>>)
                    /\ run[r].pc = "reply" => sizes = <<100, 100, 50, 0>>

C4_Witness ==
    \E r \in Runs :
        /\ run[r].pc = "done"
        /\ run[r].err = NoError
        /\ run[r].len0 = 250
        /\ FetchSizes(r) = <<100, 100, 50, 0>>
IsMessageWrite(e) == e.op = "write" /\ e.index = "messages"

\* The place in L, at or before n, of the latest write of a message's document
\* (between two of them lie at most MaxAtt attachment writes and one fetch); 0
\* when there is none.
PrevMessageWrite(L, n) ==
    LET js == {j \in 1..n : j >= n - MaxAtt - 1 /\ IsMessageWrite(L[j])}
    IN  IF js = {} THEN 0 ELSE CHOOSE j \in js : \A m \in js : m <= j

\* C5: while no call of an invocation has failed, its first fetch passes the empty
\* cursor and every later fetch the ID of the message handled last (the oldest of
\* the page just handled); the first message handled is the newest of the channel,
\* every further one is the next older one, and when the walk ends the oldest
\* message has been handled: each message once, newest to oldest, none skipped.
C5_CursorWalk ==
    \A r \in Runs :
        LET s == run[r]
            L == calls[r]
            n == Len(L)
        IN  (n >= 1 /\ s.err = NoError /\ L[n].ok) =>
            LET pm == PrevMessageWrite(L, n - 1)
            IN  /\ L[n].op = "fetch" =>
                    /\ L[n].channel = s.target
                    /\ L[n].before = (IF n = 1 THEN NoCursor ELSE L[pm].id)
                    /\ n > 1 => pm > 0
                    /\ s.pc = "reply" =>
                        IF s.len0 = 0 THEN n = 1 ELSE L[pm].id = <<s.target, 1>>
                /\ IsMessageWrite(L[n]) =>
                    L[n].id = <<s.target, IF pm = 0 THEN s.len0 ELSE L[pm].id[2] - 1>>

C5_Witness ==
    \E r \in Runs :
        LET L == calls[r]
        IN  /\ run[r].pc = "reply"
            /\ run[r].err = NoError
            /\ run[r].len0 = 250
            /\ Len(FetchSizes(r)) = 4
            /\ Last(L).before = <<run[r].target, 1>>
\* C7: an authorized invocation on a channel without messages whose fetch succeeds
\* issues that one fetch (empty cursor, nothing returned), calls the page handler
\* on nothing and writes nothing (no index call at all, the index as it was), and
\* ends with exactly one more call: the success confirmation sent to the invoking
\* channel.
C7_EmptyChannel ==
    \A r \in Runs :
        LET s == run[r]
            L == calls[r]
        IN  (s.author = AllowedID /\ s.len0 = 0 /\ L # <<>> /\ L[1].ok) =>
            /\ L[1] = [op |-> "fetch", channel |-> s.target, before |-> NoCursor,
                       ok |-> TRUE, n |-> 0]
            /\ s.err = NoError
            /\ s.messages = <<>>
            /\ \/ s.pc = "reply" /\ Len(L) = 1
               \/ /\ s.pc = "done"
                  /\ Len(L) = 2
                  /\ L[2].op = "send"
                  /\ L[2].channel = s.invChan
                  /\ L[2].text = SuccessText
            /\ (\A q \in Runs \ {r} : calls[q] = <<>>) => index = index0

C7_Witness ==
    \E r \in Runs :
        /\ run[r].pc = "done"
        /\ run[r].author = AllowedID
        /\ run[r].len0 = 0
        /\ Len(calls[r]) = 2
        /\ calls[r][1].ok
        /\ calls[r][2].ok
        /\ index0 = StaleIndex
FailedWrite(e) == e.op = "write" /\ ~e.ok
FailedFetch(e) == e.op = "fetch" /\ ~e.ok

\* C8: every step in which an invocation issues a call: if the call is a failed
\* index write, the handler goes to its reply and the index is as before the call;
\* if the call before it was a failed index write, it is the send of the reply
\* (no further write, no further fetch) and it leaves the index, with every
\* document written before the failure, as it was.
C8_StopAtFirstFailedWrite ==
    [][\A r \in Runs :
        calls'[r] # calls[r] =>
            LET L == calls'[r]
                n == Len(L)
            IN  /\ FailedWrite(L[n]) =>
                    /\ run'[r].pc = "reply"
                    /\ run'[r].err # NoError
                    /\ index' = index
                /\ (n >= 2 /\ FailedWrite(L[n - 1])) =>
                    /\ L[n].op = "send"
                    /\ run'[r].pc = "done"
                    /\ index' = index
                /\ n >= 2 => L[n - 1].op # "send"]_vars

C8_Witness ==
    \E r \in Runs :
        LET L == calls[r]
            n == Len(L)
        IN  /\ run[r].pc = "done"
            /\ n > PageSize + 3
            /\ FailedWrite(L[n - 1])
            /\ L[n - 1].index = "attachments"
            /\ L[n - 2].op = "write" /\ L[n - 2].ok
            /\ <<L[n - 2].index, L[n - 2].id>> \in DOMAIN index
            /\ <<L[n - 1].index, L[n - 1].id>> \notin DOMAIN index
\* C9: an authorized invocation sends nothing before it is done; once done, its
\* calls end with exactly one send, issued after its last fetch or write and
\* addressed to the invoking channel: the success confirmation if every fetch and
\* write before it succeeded, and otherwise the (non-empty) error text between the
\* code fences.
C9_OneReplyToInvoker ==
    \A r \in Runs :
        LET s == run[r]
            L == calls[r]
            n == Len(L)
        IN  (Started(r) /\ s.author = AllowedID) =>
            /\ n >= 2 => L[n - 1].op # "send"
            /\ (s.pc # "done" /\ n >= 1) => L[n].op # "send"
            /\ s.pc = "done" =>
                /\ n >= 2
                /\ L[n].op = "send"
                /\ L[n].channel = s.invChan
                /\ IF \A j \in 1..(n - 1) : L[j].ok
                   THEN L[n].text = SuccessText
                   ELSE /\ s.err # NoError
                        /\ L[n].text = <<CodeOpen>> \o s.err \o <<CodeClose>>
                        /\ L[n].text # SuccessText

C9_Witness ==
    \E r \in Runs :
        LET L == calls[r]
        IN  /\ run[r].pc = "done"
            /\ run[r].invChan # run[r].target
            /\ Len(L) > PageSize
            /\ Last(L).op = "send"
            /\ Last(L).text = SuccessText

\* C10: every step in which an invocation issues a call: if the call is a failed
\* fetch (the first or a later one), _PaginateMessages returns the fetch error (the
\* fetch prefix in front of the failure's text, the handler prefix nowhere) and
\* the index keeps the documents of the earlier pages; the call after a failed
\* fetch is the send of the reply, so the page handler is not invoked again; a
\* failed write gives the handler error (the handler prefix in front, the fetch
\* prefix nowhere), so one invocation never produces both.
C10_FetchFailure ==
    [][\A r \in Runs :
        calls'[r] # calls[r] =>
            LET L == calls'[r]
                n == Len(L)
                err == run'[r].err
            IN  /\ FailedFetch(L[n]) =>
                    /\ run'[r].pc = "reply"
                    /\ err = <<FetchErrPrefix>> \o FetchFailure
                    /\ \A j \in 1..Len(err) : err[j] # HandlerErrPrefix
                    /\ index' = index
                /\ FailedWrite(L[n]) =>
                    /\ err # NoError
                    /\ Head(err) = HandlerErrPrefix
                    /\ \A j \in 1..Len(err) : err[j] # FetchErrPrefix
                /\ (n >= 2 /\ FailedFetch(L[n - 1])) =>
                    /\ L[n].op = "send"
                    /\ L[n].text = <<CodeOpen, FetchErrPrefix>> \o FetchFailure \o <<CodeClose>>
                    /\ index' = index]_vars

C10_Witness ==
    \E r \in Runs :
        LET L == calls[r]
            n == Len(L)
        IN  /\ run[r].pc = "reply"
            /\ n > PageSize
            /\ FailedFetch(L[n])
            /\ L[n].before # NoCursor
            /\ <<"messages", L[n].before>> \in DOMAIN index
            /\ Head(run[r].err) = FetchErrPrefix
\* The keys of the documents of channel t's messages and attachments.
DocKeys(t) ==
    {<<"messages", <<t, n>>>> : n \in 1..ChanLen(t)}
    \cup {<<"attachments", <<t, x[1], x[2]>>>> :
            x \in {y \in (1..ChanLen(t)) \X (1..MaxAtt) : y[2] <= AttCount(t, y[1])}}

\* The index idx after one ingestion of channel t in which every call succeeds:
\* every document of t's messages and attachments, and the rest of idx.
OneRunIndex(idx, t) ==
    [key \in DOMAIN idx \cup DocKeys(t) |->
        IF key \in DocKeys(t)
        THEN IF key[1] = "messages"
             THEN MessageDoc(MsgOf(key[2]))
             ELSE AttachmentDoc(MsgOf(key[2]).Attachments[key[2][3]], MsgOf(key[2]))
        ELSE idx[key]]

\* C6: once an ingestion of channel t has ended without error, then, as long as
\* t holds the messages it held at the start and every command handled so far
\* asked for t, the index is what one successful ingestion of t makes of the
\* initial index, however many more ingestions of t have run, failed partway or
\* are under way.
C6_ReingestionIdempotent ==
    \A r \in Runs :
        LET t == run[r].target
        IN  (/\ run[r].pc = "done"
             /\ run[r].err = NoError
             /\ posted[t] = <<>>
             /\ \A q \in Runs : (Started(q) /\ run[q].author = AllowedID) => run[q].target = t)
            => index = OneRunIndex(index0, t)

C6_Witness ==
    /\ run[1].pc = "done"
    /\ run[1].err # NoError
    /\ Len(calls[1]) >= 4
    /\ run[2].pc = "done"
    /\ run[2].err = NoError
    /\ run[2].target = 1
    /\ posted[1] = <<>>
    /\ base[1] = 2
    /\ pat[1][0] = 2
    /\ index = OneRunIndex(index0, 1)
    /\ index0 = StaleIndex
FailedAttachmentWrite(e) == e.op = "write" /\ e.index = "attachments" /\ ~e.ok

\* The failed write of attachment Ak of message M is call number j of L: the k
\* calls before it are M's write and those of A1..Ak-1, all successful, and
\* their documents are in the index.
EarlierWritesRemain(L, j) ==
    LET k == L[j].id[3]
        M == Msg(L[j].id[1], L[j].id[2])
    IN  /\ j > k
        /\ L[j - k] = [op |-> "write", index |-> "messages", id |-> M.ID,
                       ok |-> TRUE, detail |-> NoError]
        /\ <<"messages", M.ID>> \in DOMAIN index
        /\ index[<<"messages", M.ID>>] = MessageDoc(M)
        /\ \A m \in 1..(k - 1) :
            /\ L[j - k + m] = [op |-> "write", index |-> "attachments",
                               id |-> M.Attachments[m].ID, ok |-> TRUE,
                               detail |-> NoError]
            /\ <<"attachments", M.Attachments[m].ID>> \in DOMAIN index
            /\ index[<<"attachments", M.Attachments[m].ID>>]
                    = AttachmentDoc(M.Attachments[m], M)
        /\ <<"attachments", L[j].id>> \in DOMAIN index =>
                <<"attachments", L[j].id>> \in DOMAIN index0

\* C11: a failed write of attachment Ak of a message is the last index call of
\* the invocation (nothing is written for Ak+1..An nor for a later message, and
\* nothing more is fetched): the handler holds the error, which carries the
\* failure's text under the handler and attachment prefixes, and its next and
\* last call is the reply with that text; the message's document and those of
\* A1..Ak-1 are in the index, then and after the reply.
C11_AttachmentWriteFailure ==
    \A r \in Runs :
        LET L == calls[r]
            n == Len(L)
        IN  /\ (n >= 1 /\ FailedAttachmentWrite(L[n])) =>
                /\ run[r].pc = "reply"
                /\ Len(run[r].err) > 2
                /\ run[r].err[1] = HandlerErrPrefix
                /\ run[r].err[2] = AttachmentErrPrefix
                /\ Contains(run[r].err, L[n].detail)
                /\ EarlierWritesRemain(L, n)
            /\ (n >= 2 /\ FailedAttachmentWrite(L[n - 1])) =>
                /\ run[r].pc = "done"
                /\ L[n].op = "send"
                /\ Contains(L[n].text, L[n - 1].detail)
                /\ EarlierWritesRemain(L, n - 1)

C11_Witness ==
    \E r \in Runs :
        LET L == calls[r]
            n == Len(L)
        IN  /\ n >= 4
            /\ run[r].pc = "done"
            /\ FailedAttachmentWrite(L[n - 1])
            /\ L[n - 1].id[3] = 1
            /\ L[n - 1].id[2] > 1
            /\ Len(MsgOf(<<L[n - 1].id[1], L[n - 1].id[2]>>).Attachments) = 2
            /\ L[n - 1].detail = TransportFailure
\* C12: an invocation holds a nil error at its reply only when its last fetch (its
\* last call before the reply) succeeded and returned no message; the page
\* handler only ever works on a non-empty page, at a place inside it, and the
\* call after an empty page is the reply; after a page of exactly PageSize
\* messages the handler is in the page, not at the reply, so success takes one
\* more fetch.
C12_SuccessOnlyAfterEmptyPage ==
    \A r \in Runs :
        LET s == run[r]
            L == calls[r]
            n == Len(L)
        IN  /\ (s.pc = "reply" /\ s.err = NoError) =>
                (n >= 1 /\ L[n].op = "fetch" /\ L[n].ok /\ L[n].n = 0)
            /\ (s.pc = "done" /\ s.err = NoError) =>
                (n >= 2 /\ L[n - 1].op = "fetch" /\ L[n - 1].ok /\ L[n - 1].n = 0)
            /\ s.pc \in {"message", "attachment"} =>
                (Len(s.messages) > 0 /\ s.i >= 1 /\ s.i <= Len(s.messages))
            /\ (n >= 2 /\ L[n - 1].op = "fetch" /\ L[n - 1].n = 0) => L[n].op = "send"
            /\ (n >= 1 /\ L[n].op = "fetch" /\ L[n].ok /\ L[n].n > 0) =>
                (s.pc = "message" /\ s.i = 1 /\ Len(s.messages) = L[n].n)

C12_Witness ==
    \E r \in Runs :
        LET L == calls[r]
            n == Len(L)
        IN  /\ run[r].pc = "reply"
            /\ run[r].err = NoError
            /\ run[r].len0 = PageSize
            /\ FetchSizes(r) = <<PageSize, 0>>
            /\ L[n].before = <<run[r].target, 1>>
Running(r) == run[r].pc \in {"fetch", "message", "attachment", "reply"}

\* C13: when every external call returns, an authorized invocation that is being
\* handled ends with its reply sent; and at no time has it fetched more often than
\* the target channel held messages at its start, plus one.
C13_Terminates ==
    /\ \A r \in Runs :
        Running(r) ~> (run[r].pc = "done" /\ Last(calls[r]).op = "send")
    /\ [](\A r \in Runs :
            (calls[r] # <<>> /\ Last(calls[r]).op = "fetch") =>
                Len(FetchSizes(r)) <= run[r].len0 + 1)

C13_Witness ==
    \E r \in Runs :
        /\ run[r].pc = "done"
        /\ run[r].len0 = 1
        /\ Len(FetchSizes(r)) = 2
        /\ Last(calls[r]).op = "send"
RECURSIVE WritesOfRange(_, _, _)
\* The number of writes the messages lo..hi of channel t take.
WritesOfRange(t, lo, hi) ==
    IF lo > hi THEN 0 ELSE 1 + AttCount(t, lo) + WritesOfRange(t, lo + 1, hi)

SameWrite(e, w) == e.op = "write" /\ e.ok /\ e.index = w.index /\ e.id = w.id

\* C14: the order of an invocation's calls, read off its latest successful call
\* while the target channel is as it was at the start.  A write for attachment Ak
\* comes right after the successful write of A(k-1), or of the message for k = 1.
\* A message's write comes right after a successful fetch (the message is the
\* first of its page) or right after the last successful write of the message
\* just before it in the page (the next newer one).  A fetch after the first comes
\* right after the last write of the message its cursor names, and between it and
\* the fetch before it lie exactly the writes of the page's messages, all
\* successful.
C14_CallOrder ==
    \A r \in Runs :
        LET s == run[r]
            L == calls[r]
            n == Len(L)
            t == s.target
        IN  (n >= 2 /\ L[n].ok /\ s.err = NoError /\ ChanLen(t) = s.len0) =>
            /\ (L[n].op = "write" /\ L[n].index = "attachments") =>
                LET id == L[n].id
                IN  IF id[3] = 1
                    THEN SameWrite(L[n - 1], [index |-> "messages", id |-> <<id[1], id[2]>>])
                    ELSE SameWrite(L[n - 1], [index |-> "attachments",
                                              id |-> <<id[1], id[2], id[3] - 1>>])
            /\ IsMessageWrite(L[n]) =>
                \/ L[n - 1].op = "fetch" /\ L[n - 1].ok /\ L[n - 1].n > 0
                \/ SameWrite(L[n - 1],
                             Last(ExpectedWrites(Msg(L[n].id[1], L[n].id[2] + 1))))
            /\ L[n].op = "fetch" =>
                LET last == L[n].before[2]
                    cnt == ((s.len0 - last) % PageSize) + 1
                    w == WritesOfRange(t, last, last + cnt - 1)
                IN  /\ SameWrite(L[n - 1], Last(ExpectedWrites(Msg(t, last))))
                    /\ n - 1 - w >= 1
                    /\ L[n - 1 - w].op = "fetch"
                    /\ L[n - 1 - w].ok
                    /\ L[n - 1 - w].n = cnt
                    /\ \A j \in (n - w)..(n - 1) : L[j].op = "write" /\ L[j].ok

C14_Witness ==
    \E r \in Runs :
        LET L == calls[r]
            n == Len(L)
        IN  /\ n > 2 * PageSize
            /\ run[r].err = NoError
            /\ L[n].op = "fetch"
            /\ L[n].ok
            /\ L[n].n = PageSize \div 2
            /\ L[n - 1].index = "attachments"
            /\ L[n - 1].id[3] = 2
\* A write the index answered with an error status.
StatusFailedWrite(e) == e.op = "write" /\ ~e.ok /\ e.detail = <<StatusFailure>>

\* C15 (as stated): in the single-page handler of src/elkbot.go, once an index
\* write has returned an error status the invocation issues no further call: no
\* index write for the remaining fetched messages and no completion reply.
C15_StopsAtFirstFailedWrite ==
    \A r \in Runs :
        \A j \in 1..Len(calls[r]) :
            StatusFailedWrite(calls[r][j]) => j = Len(calls[r])
\* The keys of the documents of the n oldest messages of channel t and of their
\* attachments.
SnapshotKeys(t, n) ==
    {<<"messages", <<t, m>>>> : m \in 1..n}
    \cup {<<"attachments", <<t, x[1], x[2]>>>> :
            x \in {y \in (1..n) \X (1..MaxAtt) : y[2] <= AttCount(t, y[1])}}

\* The document the handler writes under key.
DocOf(key) ==
    IF key[1] = "messages"
    THEN MessageDoc(MsgOf(key[2]))
    ELSE AttachmentDoc(MsgOf(key[2]).Attachments[key[2][3]], MsgOf(key[2]))

\* Invocation r has sent the success confirmation.
SentSuccess(r) ==
    /\ calls[r] # <<>>
    /\ Last(calls[r]).op = "send"
    /\ Last(calls[r]).text = SuccessText

\* C16: when an invocation has sent the success confirmation, the index holds,
\* for every message the target channel held when the invocation started and for
\* every attachment of those messages, the document the handler writes for it;
\* none of them is missing.
C16_SuccessMeansAllWritten ==
    \A r \in Runs :
        SentSuccess(r) =>
            \A key \in SnapshotKeys(run[r].target, run[r].len0) :
                key \in DOMAIN index /\ index[key] = DocOf(key)

C16_Witness ==
    \E r \in Runs :
        /\ SentSuccess(r)
        /\ run[r].len0 > 2 * PageSize
        /\ pat[run[r].target][1] = MaxAtt
        /\ Cardinality(DOMAIN index) > 2 * PageSize
\* The messages of its target channel an invocation running alone would find:
\* those the channel held before any command, and its own command when it was
\* typed there.
AloneLen(r) ==
    base[run[r].target] + (IF run[r].invChan = run[r].target THEN 1 ELSE 0)

RECURSIVE WritesFrom(_, _, _)
\* The writes for the messages hi, hi - 1, .. lo of channel t, in that order.
WritesFrom(t, hi, lo) ==
    IF hi < lo THEN <<>>
    ELSE [j \in 1..Len(ExpectedWrites(Msg(t, hi))) |->
            [op |-> "write", index |-> ExpectedWrites(Msg(t, hi))[j].index,
             id |-> ExpectedWrites(Msg(t, hi))[j].id]]
         \o WritesFrom(t, hi - 1, lo)

RECURSIVE AloneCalls(_, _, _)
\* The fetches and writes of an ingestion of the top oldest messages of channel
\* t in which no call fails, the first fetch passing the cursor before.
AloneCalls(t, top, before) ==
    LET cnt == Min(PageSize, top)
        fetch == [op |-> "fetch", before |-> before, n |-> cnt]
    IN  IF cnt = 0 THEN <<fetch>>
        ELSE <<fetch>> \o WritesFrom(t, top, top - cnt + 1)
             \o AloneCalls(t, top - cnt, <<t, top - cnt + 1>>)

\* Call e of a log is the call x.
SameCall(e, x) ==
    /\ e.op = x.op
    /\ e.op = "fetch" => (e.before = x.before /\ (e.ok => e.n = x.n))
    /\ e.op = "write" => (e.index = x.index /\ e.id = x.id)

\* The reply that follows the failed call e.
ReplyAfterFailure(e) ==
    LET cause == IF e.detail = TransportFailure THEN e.detail
                 ELSE Errorf(StatusErrPrefix, e.detail)
        err == IF e.op = "fetch" THEN FetchErr(FetchFailure)
               ELSE IF e.index = "messages" THEN HandlerErr(IngestMessageErr(cause))
               ELSE HandlerErr(IngestAttachmentErr(cause))
    IN  <<CodeOpen>> \o err \o <<CodeClose>>

\* Invocation r's calls so far are those it issues running alone, given what
\* each of its own calls answered: its fetches (their cursors and sizes) and
\* writes are, in order, the first ones of AloneCalls, none follows a failed one,
\* and its reply, to its invoking channel, is the success text after the whole
\* of AloneCalls and the failed call's error after a failure.
RunsAsAlone(r) ==
    LET s == run[r]
        L == calls[r]
        n == Len(L)
        m == IF n > 0 /\ L[n].op = "send" THEN n - 1 ELSE n
        E == AloneCalls(s.target, AloneLen(r), NoCursor)
    IN  /\ m <= Len(E)
        /\ \A j \in 1..m : SameCall(L[j], E[j]) /\ (~L[j].ok => j = m)
        /\ s.pc = "done" => n > m
        /\ n > m =>
            /\ m >= 1
            /\ L[n].channel = s.invChan
            /\ L[n].text = IF L[m].ok THEN SuccessText
                           ELSE ReplyAfterFailure(L[m] @@ [detail |-> <<>>])
            /\ L[m].ok => m = Len(E)

\* The index after invocation r has run alone on idx without a failure.
AfterRun(idx, r) ==
    LET keys == SnapshotKeys(run[r].target, AloneLen(r))
    IN  [key \in DOMAIN idx \cup keys |-> IF key \in keys THEN DocOf(key) ELSE idx[key]]

\* Both commands were handled to the end without a failure.
BothSucceeded ==
    \A r \in 1..2 : run[r].pc = "done" /\ run[r].err = NoError /\ calls[r] # <<>>

\* Every command so far came from the allowed author.
AllAuthorized == \A r \in Runs : Started(r) => run[r].author = AllowedID

\* No command (and so no reply) of another invocation lands in r's target channel.
ApartFrom(r) ==
    \A q \in Runs \ {r} : Started(q) => run[q].invChan # run[r].target

\* C17 (as stated): of two authorized invocations that may overlap, on the same
\* or on different target channels, each issues the calls and the reply it
\* issues running alone, and when both succeed the index is what handling the
\* two one after the other makes of the initial index, in either order.
C17_AsStated ==
    AllAuthorized =>
        /\ \A r \in Runs : Started(r) => RunsAsAlone(r)
        /\ BothSucceeded =>
            /\ index = AfterRun(AfterRun(index0, 1), 2)
            /\ index = AfterRun(AfterRun(index0, 2), 1)

\* C17 (amended): the same, for invocations none of whose commands is typed in
\* the other's target channel.
C17_IndependentRuns ==
    AllAuthorized =>
        /\ \A r \in Runs : (Started(r) /\ ApartFrom(r)) => RunsAsAlone(r)
        /\ (BothSucceeded /\ ApartFrom(1) /\ ApartFrom(2)) =>
            /\ index = AfterRun(AfterRun(index0, 1), 2)
            /\ index = AfterRun(AfterRun(index0, 2), 1)

\* Both commands typed in channel 2 before either reply, both ingesting channel 1.
C17_Witness ==
    /\ BothSucceeded
    /\ AllAuthorized
    /\ run[1].target = 1
    /\ run[2].target = 1
    /\ Len(posted[2]) = 4
    /\ posted[2][2].author = AllowedID
    /\ posted[2][3].author = BotID
    /\ base[1] = MaxSmall
    /\ pat[1][0] = MaxAtt
    /\ index = AfterRun(AfterRun(index0, 1), 2)

\* Each command typed in its own target channel, the second before the first's
\* reply.
C17_WitnessApart ==
    /\ BothSucceeded
    /\ AllAuthorized
    /\ run[1].target = 1
    /\ run[1].invChan = 1
    /\ run[2].target = 2
    /\ run[2].invChan = 2
    /\ Len(calls[2]) >= 4
    /\ Len(calls[1]) >= 4

====
